---- MODULE Spec2Model ----
(***************************************************************************)
(* Job lifecycle of firefly-iii-ai-categorize: the in-memory JobList, the  *)
(* single-concurrency processing queue with its per-task timeout, the      *)
(* webhook handler, the human-input resolver (App.setCategory) and the     *)
(* cleanup sweep.                                                          *)
(*                                                                         *)
(* One TLA+ step is one turn of the node.js event loop: a handler runs     *)
(* from its entry, or from the await it was suspended on, up to its next   *)
(* await or its end.  EventEmitter.emit is synchronous, so the events of a *)
(* mutation belong to the step of the mutation.                            *)
(*                                                                         *)
(* Strings the code transforms (descriptions, model replies, category      *)
(* names) are sequences of tokens; "" is the empty sequence.  An optional  *)
(* JavaScript property is a set: {} when the property is absent, {v} when  *)
(* it holds v.                                                             *)
(***************************************************************************)
EXTENDS Integers, Sequences, FiniteSets, TLC

\* ------------------------------------------------------------------ bounds
MaxJobs == 1
MaxTime == 48
MaxResolvers == 1
MaxQueueJobs == 3
MaxSweepJobs == 2
MaxWebhookJobs == 1
MaxRacingResolvers == 2
MaxDeliveries == 2
MaxStoreJobs == 1
MaxLiveJobs == 2

\* --------------------------------------------------------------- constants
Retention == 24

None == {}
Some(x) == {x}

\* ------------------------------------------------------------------ strings
SP == " "
NL == "\n"
Whitespace == {SP, NL}

RECURSIVE TrimLeft(_)
TrimLeft(s) ==
    IF s # <<>> /\ Head(s) \in Whitespace THEN TrimLeft(Tail(s)) ELSE s

RECURSIVE TrimRight(_)
TrimRight(s) ==
    IF s # <<>> /\ s[Len(s)] \in Whitespace
    THEN TrimRight(SubSeq(s, 1, Len(s) - 1))
    ELSE s

trim(s) == TrimRight(TrimLeft(s))

\* Index of the first token of s that is in toks, 0 when there is none.
FirstIndex(s, toks) ==
    IF \E i \in 1..Len(s) : s[i] \in toks
    THEN CHOOSE i \in 1..Len(s) :
            /\ s[i] \in toks
            /\ \A k \in 1..(i - 1) : s[k] \notin toks
    ELSE 0

\* String.prototype.replace(pattern, '') with a pattern that has no g flag:
\* the first match only.  toEnd patterns (".*$") take the rest of the line.
replace(s, rule) ==
    LET i == FirstIndex(s, rule.match)
    IN  IF i = 0 THEN s
        ELSE IF rule.toEnd THEN SubSeq(s, 1, i - 1)
        ELSE SubSeq(s, 1, i - 1) \o SubSeq(s, i + 1, Len(s))

exactSubstringsToRemove ==
    << [match |-> {"PAGAMENTO POS", "pagamento pos"}, toEnd |-> FALSE],
       [match |-> {"CRV*", "crv*"},                   toEnd |-> FALSE],
       [match |-> {"PAYPAL*", "paypal*"},             toEnd |-> FALSE],
       [match |-> {"VILNIUS IRL", "vilnius irl"},     toEnd |-> TRUE],
       [match |-> {"DUBLIN IRL", "dublin irl"},       toEnd |-> TRUE],
       [match |-> {"AMSTERDAM IRL", "amsterdam irl"}, toEnd |-> TRUE],
       [match |-> {"OPERAZIONE", "operazione"},       toEnd |-> TRUE] >>

RECURSIVE ApplyRules(_, _, _)
ApplyRules(s, rules, i) ==
    IF i > Len(rules) THEN s ELSE ApplyRules(replace(s, rules[i]), rules, i + 1)

removeSubstrings(description, regexPatterns) ==
    trim(ApplyRules(description, regexPatterns, 1))

\* ------------------------------------------------------- webhook payloads
Tx(type, categoryId, description, destinationName) ==
    [type |-> type, category_id |-> categoryId,
     description |-> description, destination_name |-> destinationName]

\* req.body; id = 0 is a missing content.id, hasTx = FALSE a body whose
\* content has no transactions property.
Body(trigger, response, id, hasTx, txs) ==
    [trigger |-> trigger, response |-> response,
     content |-> [id |-> id, hasTx |-> hasTx, transactions |-> txs]]

CoffeeTx ==
    Tx("withdrawal", "null", <<"PAGAMENTO POS", SP, "CRV*", SP, "COFFEE SHOP">>,
       <<"Coffee Shop">>)

ValidBodies ==
    { Body("UPDATE_TRANSACTION", "TRANSACTIONS", 1, TRUE, <<CoffeeTx>>) }

InvalidBodies ==
    { Body("OTHER", "TRANSACTIONS", 1, TRUE, <<CoffeeTx>>),
      Body("OTHER", "OTHER", 0, TRUE, <<>>),
      Body("UPDATE_TRANSACTION", "TRANSACTIONS", 1, FALSE, <<>>),
      Body("UPDATE_TRANSACTION", "TRANSACTIONS", 1, TRUE,
           <<Tx("withdrawal", "7", <<"X">>, <<"Y">>)>>) }

Bodies == ValidBodies \cup InvalidBodies

\* Every way a payload can pass or fail the checks of #handleWebhook: each
\* field right or wrong, the transaction list missing, empty or of one
\* transaction.
TxLists ==
    {<<>>} \cup
    { <<Tx(type, categoryId, description, destinationName)>> :
        type \in {"withdrawal", "deposit", "transfer"},
        categoryId \in {"null", "7"},
        description \in {<<>>, <<"COFFEE SHOP">>},
        destinationName \in {<<>>, <<"Coffee Shop">>} }

WebhookBodies ==
    { Body(trigger, response, id, TRUE, txs) :
        trigger \in {"UPDATE_TRANSACTION", "OTHER"},
        response \in {"TRANSACTIONS", "OTHER"},
        id \in {0, 1},
        txs \in TxLists }
    \cup
    { Body(trigger, response, id, FALSE, <<>>) :
        trigger \in {"UPDATE_TRANSACTION", "OTHER"},
        response \in {"TRANSACTIONS", "OTHER"},
        id \in {0, 1} }

Accepted == "ok"

\* A validation without the check of the response field.
ValidateIgnoresResponse(body) ==
    LET c == body.content
        t == c.transactions[1]
    IN  IF body.trigger # "UPDATE_TRANSACTION"
          THEN "Trigger is not UPDATE_TRANSACTION. Request will not be processed"
        ELSE IF c.id = 0
          THEN "Missing content.id"
        ELSE IF c.hasTx /\ Len(c.transactions) = 0
          THEN "No transactions are available in content.transactions"
        ELSE IF ~c.hasTx
          THEN "TypeError: Cannot read properties of undefined (reading '0')"
        ELSE IF t.type \notin {"withdrawal", "deposit"}
          THEN "content.transactions[0].type must be withdrawal or deposit. Transaction will be ignored."
        ELSE IF t.category_id # "null"
          THEN "content.transactions[0].category_id is already set. Transaction will be ignored."
        ELSE IF t.description = <<>>
          THEN "Missing content.transactions[0].description"
        ELSE IF t.destination_name = <<>>
          THEN "Missing content.transactions[0].destination_name"
        ELSE Accepted

\* The validation of #handleWebhook: the message of the exception the first
\* failing check throws, Accepted when none does.
Validate(body) ==
    LET c == body.content
        t == c.transactions[1]
    IN  IF body.trigger # "UPDATE_TRANSACTION"
          THEN "Trigger is not UPDATE_TRANSACTION. Request will not be processed"
        ELSE IF body.response # "TRANSACTIONS"
          THEN "Response is not TRANSACTIONS. Request will not be processed"
        ELSE IF c.id = 0
          THEN "Missing content.id"
        ELSE IF c.hasTx /\ Len(c.transactions) = 0
          THEN "No transactions are available in content.transactions"
        ELSE IF ~c.hasTx
          THEN "TypeError: Cannot read properties of undefined (reading '0')"
        ELSE IF t.type \notin {"withdrawal", "deposit"}
          THEN "content.transactions[0].type must be withdrawal or deposit. Transaction will be ignored."
        ELSE IF t.category_id # "null"
          THEN "content.transactions[0].category_id is already set. Transaction will be ignored."
        ELSE IF t.description = <<>>
          THEN "Missing content.transactions[0].description"
        ELSE IF t.destination_name = <<>>
          THEN "Missing content.transactions[0].destination_name"
        ELSE Accepted

\* ------------------------------------------------------------------ JobList
\* The registry is a Map in insertion order: a sequence of job objects.
HasJob(js, id) == \E i \in 1..Len(js) : js[i].id = id

getJob(js, id) == js[CHOOSE i \in 1..Len(js) : js[i].id = id]

Put(js, job) == [i \in 1..Len(js) |-> IF js[i].id = job.id THEN job ELSE js[i]]

Without(js, id) == SelectSeq(js, LAMBDA j : j.id # id)

JobEvent(kind, job, js) == [kind |-> kind, job |-> job, jobs |-> js]

DeletedEvent(id, js) == [kind |-> "job deleted", id |-> id, jobs |-> js]

\* A JobList method yields the registry it leaves and the events it emits.
Quiet(js) == [jobs |-> js, ev |-> <<>>]

Updated(js, job) ==
    LET js2 == Put(js, job)
    IN  [jobs |-> js2, ev |-> <<JobEvent("job updated", job, js2)>>]

\* A generator that hands out one id again and again.
uuidRepeated(next) == 1

\* uuid(): an id no earlier call has returned; next counts the calls so far,
\* plus one, and stands for the id of this call.
uuid(next) == next

createJob(js, id, created, data) ==
    LET job == [id |-> id, created |-> created, status |-> "queued",
                data |-> data, errorMessage |-> None]
        js2 == Append(js, job)
    IN  [jobs |-> js2, ev |-> <<JobEvent("job created", job, js2)>>]

\* updateJobData that replaces the data bag.
updateJobDataReplaces(js, id, data) ==
    IF HasJob(js, id)
    THEN Updated(js, [getJob(js, id) EXCEPT !.data = data])
    ELSE Quiet(js)

\* updateJobData that drops the data it is given.
updateJobDataIgnored(js, id, data) ==
    IF HasJob(js, id) THEN Updated(js, getJob(js, id)) ELSE Quiet(js)

updateJobData(js, id, data) ==
    IF HasJob(js, id)
    THEN Updated(js, [getJob(js, id) EXCEPT !.data = data @@ @])
    ELSE Quiet(js)

\* setJobInProgress that leaves the status as it was.
setJobInProgressSkipped(js, id) ==
    IF HasJob(js, id) THEN Updated(js, getJob(js, id)) ELSE Quiet(js)

setJobInProgress(js, id) ==
    IF HasJob(js, id)
    THEN Updated(js, [getJob(js, id) EXCEPT !.status = "in_progress"])
    ELSE Quiet(js)

\* setJobFinished that leaves the status as it was.
setJobFinishedSkipped(js, id) ==
    IF HasJob(js, id) THEN Updated(js, getJob(js, id)) ELSE Quiet(js)

setJobFinished(js, id) ==
    IF HasJob(js, id)
    THEN Updated(js, [getJob(js, id) EXCEPT !.status = "finished"])
    ELSE Quiet(js)

\* A task that marks the job finished when classify gives no category.
setJobHumanInputFinishes(js, id) ==
    IF HasJob(js, id)
    THEN Updated(js, [getJob(js, id) EXCEPT !.status = "finished"])
    ELSE Quiet(js)

setJobHumanInput(js, id) ==
    IF HasJob(js, id)
    THEN Updated(js, [getJob(js, id) EXCEPT !.status = "human_input"])
    ELSE Quiet(js)

\* setJobFailed that does not store the message.
setJobFailedNoMessage(js, jobId, errorMessage) ==
    IF HasJob(js, jobId)
    THEN Updated(js, [getJob(js, jobId) EXCEPT !.status = "failed"])
    ELSE Quiet(js)

\* setJobFailed that does not emit 'job updated'.
setJobFailedSilent(js, jobId, errorMessage) ==
    IF HasJob(js, jobId)
    THEN Quiet(Put(js, [getJob(js, jobId) EXCEPT
                          !.status = "failed",
                          !.errorMessage = Some(errorMessage)]))
    ELSE Quiet(js)

setJobFailed(js, jobId, errorMessage) ==
    IF HasJob(js, jobId)
    THEN Updated(js, [getJob(js, jobId) EXCEPT !.status = "failed",
                                              !.errorMessage = Some(errorMessage)])
    ELSE Quiet(js)

\* A sweep that spares only the jobs that wait for or hold the queue.
ShouldDeleteNotQueued(job, t) ==
    /\ job.status \notin {"queued", "in_progress"}
    /\ t - job.created > Retention

\* The sweep's test without the status.
ShouldDeleteAnyStatus(job, t) == t - job.created > Retention

ShouldDelete(job, t) ==
    /\ job.status \in {"finished", "failed"}
    /\ t - job.created > Retention

\* cleanupOldJobs: the Map is walked in insertion order;
\* each deletion emits 'job deleted' with the jobs left at that moment.
RECURSIVE Sweep(_, _, _, _)
Sweep(js, todo, t, ev) ==
    IF todo = <<>> THEN [jobs |-> js, ev |-> ev]
    ELSE LET job == Head(todo)
         IN  IF ShouldDelete(job, t)
             THEN LET js2 == Without(js, job.id)
                  IN  Sweep(js2, Tail(todo), t,
                            Append(ev, DeletedEvent(job.id, js2)))
             ELSE Sweep(js, Tail(todo), t, ev)

cleanupOldJobs(js, t) == Sweep(js, js, t, <<>>)

\* A snapshot that leaves out the jobs in a terminal status.
getJobsUnfinished(js) ==
    SelectSeq(js, LAMBDA j : j.status \notin {"finished", "failed"})

\* Array.from(getJobs().values()): the jobs of the registry, in its order.
getJobs(js) == js

\* ------------------------------------------------------------ collaborators
\* FireflyService.getCategories answers a Map name -> id.
\* The catalogs the ledger may answer with: none, or the category Food and a
\* category whose name is the empty string.
NoCategories == <<>>
FoodAndUnnamed == (<<"Food">> :> 1) @@ (<<>> :> 2)

Catalogs == {NoCategories, FoodAndUnnamed}

CategoryIds == {1, 2, 3}

\* The text of the model's answer, response.data.choices[0]?.message?.content
\* || '' (an absent content is the empty text).
Replies == { <<"Food">>, <<"Food", NL>>, <<"Pizza">>, <<>> }

FireflyError == "Error while communicating with Firefly III"
OpenAiError == "Error while communicating with OpenAI"
DestructureError == "Cannot destructure property 'category' of null"

generatePrompt(categories, destinationName, description) ==
    [categories |-> categories, destinationName |-> destinationName,
     description |-> description]

\* OpenAiService.classify once the completion has arrived: None is the
\* null it returns when the guess is no category name.
classify(categories, destinationName, description, content) ==
    LET guess == trim(replace(content, [match |-> {NL}, toEnd |-> FALSE]))
    IN  IF guess \notin categories
        THEN None
        ELSE Some([prompt |-> generatePrompt(categories, destinationName, description),
                   response |-> guess,
                   category |-> guess])

\* io.emit of the two JobList events App.run subscribes to.
Forwarded == {"job created", "job updated"}

Forward(ev) == SelectSeq(ev, LAMBDA e : e.kind \in Forwarded)

\* --------------------------------------------------------------- the queue
Concurrency == 1

\* Array.prototype.unshift in place of push: the task goes to the head.
pushFront(q, job) == <<job>> \o q

\* queue.push(task): the task joins the tail of Queue.jobs.
push(q, job) == Append(q, job)

\* A shift that leaves the task it takes in the array.
ShiftKeepsHead(q) == [job |-> Head(q), rest |-> q]

\* Array.prototype.shift: the task at the head, and the tasks left.
Shift(q) == [job |-> Head(q), rest |-> Tail(q)]

\* A catch block that only logs: the job is left as it was.
TaskCatchSwallows(js, id, message) ==
    [r |-> Quiet(js), settled |-> "resolved"]

\* A task without the try block: the exception rejects the task's promise.
TaskCatchRethrows(js, id, message) ==
    [r |-> Quiet(js), settled |-> "rejected"]

\* What the queued task does with an exception of its try block.
TaskCatch(js, id, message) ==
    [r |-> setJobFailed(js, id, message), settled |-> "resolved"]

\* Queue._start: with a free slot and a waiting task, the task at the head is
\* taken and called; it runs to its first await, i.e. it sets its job
\* in_progress and asks for the categories.  p is the set of tasks the queue
\* counts as pending, ts the task executions in flight.
QStart(js, q, p, ts) ==
    IF Cardinality(p) < Concurrency /\ q # <<>>
    THEN LET s == Shift(q)
             r == setJobInProgress(js, s.job)
         IN  [jobs |-> r.jobs, ev |-> r.ev, queue |-> s.rest,
              pending |-> p \cup {s.job},
              tasks |-> ts \cup {[job |-> s.job, pc |-> "getCategories",
                                    categories |-> NoCategories,
                                    category |-> <<>>]},
              calls |-> <<[fn |-> "getCategories", by |-> "task", job |-> s.job]>>,
              qev |-> <<[kind |-> "start", job |-> s.job]>>]
    ELSE [jobs |-> js, ev |-> <<>>, queue |-> q, pending |-> p, tasks |-> ts,
          calls |-> <<>>, qev |-> <<>>]

\* The check without the status.
CanResolveAnyStatus(js, jobId) == HasJob(js, jobId)

\* App.setCategory, the check before the first await.
CanResolve(js, jobId) ==
    /\ HasJob(js, jobId)
    /\ getJob(js, jobId).status = "human_input"

\* A lookup that falls back on some named category for an unknown id.
LookupWithFallback(categories, categoryId) ==
    IF \E n \in DOMAIN categories : categories[n] = categoryId
    THEN Some(CHOOSE n \in DOMAIN categories : categories[n] = categoryId)
    ELSE IF \E n \in DOMAIN categories : n # <<>>
    THEN Some(CHOOSE n \in DOMAIN categories : n # <<>>)
    ELSE None

\* categoryLookup.get(categoryId): the name with that id, if any.
Lookup(categories, categoryId) ==
    IF \E n \in DOMAIN categories : categories[n] = categoryId
    THEN Some(CHOOSE n \in DOMAIN categories : categories[n] = categoryId)
    ELSE None

DropAt(seq, i) == SubSeq(seq, 1, i - 1) \o SubSeq(seq, i + 1, Len(seq))

\* ------------------------------------------------------------------- state
VARIABLES
    jobs,       \* JobList.#jobs
    nextId,     \* the ids uuid() has handed out so far, plus one
    now,        \* the clock new Date() reads
    queue,      \* Queue.jobs: the ids of the jobs whose task waits
    pending,    \* the tasks the queue counts as running
    tasks,      \* the task executions in flight, each suspended on an await
    resolvers,  \* the setCategory calls in flight, each suspended on an await
    emitted,    \* the events the JobList emitted in the last step
    ioSent,     \* the messages sent to the subscribers in the last step
    calls,      \* the collaborator calls issued in the last step
    qev,        \* the events the queue dispatched in the last step
    res,        \* the answer to the caller of the last step, if it had one
    lastOp      \* the handler that ran in the last step

vars == <<jobs, nextId, now, queue, pending, tasks, resolvers, emitted, ioSent,
          calls, qev, res, lastOp>>

NoAnswer == [to |-> "nobody"]

Init ==
    /\ jobs = <<>>
    /\ nextId = 1
    /\ now = 0
    /\ queue = <<>>
    /\ pending = {}
    /\ tasks = {}
    /\ resolvers = <<>>
    /\ emitted = <<>>
    /\ ioSent = <<>>
    /\ calls = <<>>
    /\ qev = <<>>
    /\ res = NoAnswer
    /\ lastOp = [op |-> "init"]

\* ----------------------------------------------------------------- webhook
\* POST /webhook: #onWebhook and the synchronous part of #handleWebhook.
\* queue.push with autostart starts the task at once when the queue is idle.
Webhook(body, maxJobs) ==
    LET v == Validate(body)
        t == body.content.transactions[1]
        data == [destinationName |-> t.destination_name,
                 description |-> removeSubstrings(t.description,
                                                  exactSubstringsToRemove),
                 transactionId |-> body.content.id,
                 transactions |-> body.content.transactions]
        id == uuid(nextId)
        c == createJob(jobs, id, now, data)
        s == QStart(c.jobs, push(queue, id), pending, tasks)
    IN  IF v # Accepted
        THEN /\ res' = [to |-> "http", status |-> 400, body |-> v]
             /\ emitted' = <<>>
             /\ ioSent' = <<>>
             /\ calls' = <<>>
             /\ qev' = <<>>
             /\ lastOp' = [op |-> "webhook", accepted |-> FALSE, body |-> body]
             /\ UNCHANGED <<jobs, nextId, now, queue, pending, tasks, resolvers>>
        ELSE /\ nextId <= maxJobs
             /\ jobs' = s.jobs
             /\ nextId' = nextId + 1
             /\ queue' = s.queue
             /\ pending' = s.pending
             /\ tasks' = s.tasks
             /\ emitted' = c.ev \o s.ev
             /\ ioSent' = Forward(c.ev \o s.ev)
             /\ calls' = s.calls
             /\ qev' = s.qev
             /\ res' = [to |-> "http", status |-> 200, body |-> "Queued"]
             /\ lastOp' = [op |-> "webhook", accepted |-> TRUE, job |-> id,
                           body |-> body]
             /\ UNCHANGED <<now, resolvers>>

\* ---------------------------------------------------------- the queued task
TaskOf(j) == CHOOSE t \in tasks : t.job = j

\* The task of job j returns or has caught its exception: r is what its last
\* JobList call left.  Its promise settles; if the queue still counts the
\* task as pending it dispatches 'success' or 'error', frees the slot and
\* starts the next task.  A task whose timeout has fired is no longer counted.
TaskEnd(j, r, settled, op) ==
    LET counted == j \in pending
        s == QStart(r.jobs, queue, pending \ {j}, tasks \ {TaskOf(j)})
        mine == IF counted
                THEN <<[kind |-> IF settled = "resolved" THEN "success" ELSE "error",
                        job |-> j]>>
                ELSE <<>>
    IN  /\ jobs' = s.jobs
        /\ queue' = s.queue
        /\ pending' = s.pending
        /\ tasks' = s.tasks
        /\ emitted' = r.ev \o s.ev
        /\ ioSent' = Forward(r.ev \o s.ev)
        /\ calls' = s.calls
        /\ qev' = mine \o s.qev
        /\ res' = NoAnswer
        /\ lastOp' = op
        /\ UNCHANGED <<nextId, now, resolvers>>

\* An await of the task throws: the catch block of the task.
TaskThrow(j, message, op) ==
    LET c == TaskCatch(jobs, j, message)
    IN  TaskEnd(j, c.r, c.settled, op)

\* The task goes on to its next await.
TaskAwait(j, r, pc, categories, category, call, op) ==
    /\ jobs' = r.jobs
    /\ tasks' = (tasks \ {TaskOf(j)}) \cup
                    {[job |-> j, pc |-> pc, categories |-> categories,
                      category |-> category]}
    /\ emitted' = r.ev
    /\ ioSent' = Forward(r.ev)
    /\ calls' = <<call>>
    /\ qev' = <<>>
    /\ res' = NoAnswer
    /\ lastOp' = op
    /\ UNCHANGED <<nextId, now, queue, pending, resolvers>>

\* firefly.getCategories() of the task settles.
TaskCategories(j) ==
    /\ \E t \in tasks : t.job = j /\ t.pc = "getCategories"
    /\ \/ \E c \in Catalogs :
            TaskAwait(j, Quiet(jobs), "classify", c, <<>>,
                      [fn |-> "classify", by |-> "task", job |-> j,
                       categories |-> DOMAIN c],
                      [op |-> "task", job |-> j, step |-> "getCategories",
                       ok |-> TRUE])
       \/ TaskThrow(j, FireflyError,
                    [op |-> "task", job |-> j, step |-> "getCategories",
                     ok |-> FALSE])

\* openAi.classify() of the task settles.
TaskClassified(j) ==
    /\ \E t \in tasks : t.job = j /\ t.pc = "classify"
    /\ LET job == getJob(jobs, j)
           cats == TaskOf(j).categories
       IN  \/ TaskThrow(j, OpenAiError,
                        [op |-> "task", job |-> j, step |-> "classify",
                         ok |-> FALSE, result |-> "throws"])
           \/ \E content \in Replies :
                LET k == classify(DOMAIN cats, job.data.destinationName,
                                  job.data.description, content)
                    got == CHOOSE x \in k : TRUE
                    newData == [category |-> got.category,
                                prompt |-> got.prompt,
                                response |-> got.response,
                                categories |-> cats] @@ job.data
                IN  IF k = None
                    THEN TaskThrow(j, DestructureError,
                                   [op |-> "task", job |-> j, step |-> "classify",
                                    ok |-> TRUE, result |-> "null"])
                    ELSE IF got.category = <<>>
                    THEN TaskEnd(j, setJobHumanInput(jobs, j), "resolved",
                                 [op |-> "task", job |-> j, step |-> "classify",
                                  ok |-> TRUE, result |-> "falsy"])
                    ELSE TaskAwait(j, updateJobData(jobs, j, newData),
                                   "setCategory", cats, got.category,
                                   [fn |-> "setCategory", by |-> "task", job |-> j,
                                    transactionId |-> job.data.transactionId,
                                    categoryId |-> cats[got.category]],
                                   [op |-> "task", job |-> j, step |-> "classify",
                                    ok |-> TRUE, result |-> "category"])

\* firefly.setCategory() of the task settles.
TaskAssigned(j) ==
    /\ \E t \in tasks : t.job = j /\ t.pc = "setCategory"
    /\ \/ TaskEnd(j, setJobFinished(jobs, j), "resolved",
                  [op |-> "task", job |-> j, step |-> "setCategory", ok |-> TRUE])
       \/ TaskThrow(j, FireflyError,
                    [op |-> "task", job |-> j, step |-> "setCategory",
                     ok |-> FALSE])

\* The 30 s timer of the pending task fires while the task is suspended: the
\* queue dispatches 'timeout' (the listener only logs), stops counting the
\* task and starts the next one.  The task itself is not interrupted.
TaskTimeout(j) ==
    /\ j \in pending
    /\ LET s == QStart(jobs, queue, pending \ {j}, tasks)
       IN  /\ jobs' = s.jobs
           /\ queue' = s.queue
           /\ pending' = s.pending
           /\ tasks' = s.tasks
           /\ emitted' = s.ev
           /\ ioSent' = Forward(s.ev)
           /\ calls' = s.calls
           /\ qev' = <<[kind |-> "timeout", job |-> j]>> \o s.qev
           /\ res' = NoAnswer
           /\ lastOp' = [op |-> "timeout", job |-> j]
           /\ UNCHANGED <<nextId, now, resolvers>>

\* ------------------------------------------------------ human-input resolver
Vias == {"http", "socket"}

\* What the caller of App.setCategory does with its exception: POST
\* /set-category answers 400 with the message, the socket handler sends an
\* 'error' message to its socket.
Rejected(via, message) ==
    IF via = "http"
    THEN [to |-> "http", status |-> 400, body |-> message]
    ELSE [to |-> "socket", kind |-> "error", body |-> "Failed to update category"]

ResolverEnd(i, r, extra, answer, op) ==
    /\ jobs' = r.jobs
    /\ resolvers' = DropAt(resolvers, i)
    /\ emitted' = r.ev
    /\ ioSent' = Forward(r.ev) \o extra
    /\ calls' = <<>>
    /\ qev' = <<>>
    /\ res' = answer
    /\ lastOp' = op
    /\ UNCHANGED <<nextId, now, queue, pending, tasks>>

\* POST /set-category or the socket message 'update job category' arrives:
\* App.setCategory up to its first await.
SetCategoryCall(via, jobId, maxResolvers) ==
    IF CanResolve(jobs, jobId)
    THEN \E categoryId \in CategoryIds :
         /\ Len(resolvers) < maxResolvers
         /\ resolvers' = Append(resolvers,
                                [jobId |-> jobId, categoryId |-> categoryId,
                                 via |-> via, pc |-> "getCategories",
                                 name |-> <<>>,
                                 transactionId |-> getJob(jobs, jobId).data.transactionId])
         /\ emitted' = <<>>
         /\ ioSent' = <<>>
         /\ calls' = <<[fn |-> "getCategories", by |-> "resolver", job |-> jobId]>>
         /\ qev' = <<>>
         /\ res' = NoAnswer
         /\ lastOp' = [op |-> "setCategory", job |-> jobId, step |-> "entry",
                       ok |-> TRUE, via |-> via]
         /\ UNCHANGED <<jobs, nextId, now, queue, pending, tasks>>
    ELSE /\ emitted' = <<>>
         /\ ioSent' = <<>>
         /\ calls' = <<>>
         /\ qev' = <<>>
         /\ res' = Rejected(via, "Invalid job or job status")
         /\ lastOp' = [op |-> "setCategory", job |-> jobId, step |-> "entry",
                       ok |-> FALSE, via |-> via]
         /\ UNCHANGED <<jobs, nextId, now, queue, pending, tasks, resolvers>>

\* firefly.getCategories() of a resolution settles.
ResolverCategories(i) ==
    /\ i \in 1..Len(resolvers)
    /\ resolvers[i].pc = "getCategories"
    /\ LET me == resolvers[i]
           op(ok) == [op |-> "setCategory", job |-> me.jobId,
                      step |-> "getCategories", ok |-> ok, via |-> me.via,
                      categoryId |-> me.categoryId]
       IN  \/ ResolverEnd(i, Quiet(jobs), <<>>, Rejected(me.via, FireflyError),
                          op(FALSE))
           \/ \E c \in Catalogs :
                LET categoryName == Lookup(c, me.categoryId)
                    opWith(ok) == [catalog |-> c] @@ op(ok)
                IN  IF DOMAIN c = {}
                    THEN ResolverEnd(i, Quiet(jobs), <<>>,
                                     Rejected(me.via, "No categories found"),
                                     opWith(FALSE))
                    ELSE IF categoryName = None \/ categoryName = Some(<<>>)
                    THEN ResolverEnd(i, Quiet(jobs), <<>>,
                                     Rejected(me.via, "Category ID not found"),
                                     opWith(FALSE))
                    ELSE /\ resolvers' =
                              [resolvers EXCEPT ![i] =
                                  [me EXCEPT !.pc = "setCategory",
                                             !.name = CHOOSE n \in categoryName : TRUE]]
                         /\ emitted' = <<>>
                         /\ ioSent' = <<>>
                         /\ calls' = <<[fn |-> "setCategory", by |-> "resolver",
                                        job |-> me.jobId,
                                        transactionId |-> me.transactionId,
                                        categoryId |-> me.categoryId]>>
                         /\ qev' = <<>>
                         /\ res' = NoAnswer
                         /\ lastOp' = opWith(TRUE)
                         /\ UNCHANGED <<jobs, nextId, now, queue, pending, tasks>>

\* A resolution that does not write the category into the job's data.
AssignCategoryFieldSkipped(js, jobId, categoryName) == js

\* job.data.category = categoryName on the job object the resolution looked
\* up at its entry: the registry's object as long as the job is not deleted.
AssignCategoryField(js, jobId, categoryName) ==
    IF HasJob(js, jobId)
    THEN Put(js, [getJob(js, jobId) EXCEPT
                    !.data = [category |-> categoryName] @@ @])
    ELSE js

\* firefly.setCategory() of a resolution settles.
ResolverAssigned(i) ==
    /\ i \in 1..Len(resolvers)
    /\ resolvers[i].pc = "setCategory"
    /\ LET me == resolvers[i]
           op(ok) == [op |-> "setCategory", job |-> me.jobId,
                      step |-> "setCategory", ok |-> ok, via |-> me.via]
           r == setJobFinished(AssignCategoryField(jobs, me.jobId, me.name),
                               me.jobId)
           updatedJob == IF HasJob(r.jobs, me.jobId)
                         THEN [kind |-> "job updated",
                               job |-> getJob(r.jobs, me.jobId)]
                         ELSE [kind |-> "job updated"]
       IN  \/ ResolverEnd(i, Quiet(jobs), <<>>, Rejected(me.via, FireflyError),
                          op(FALSE))
           \/ IF me.via = "http"
              THEN ResolverEnd(i, r, <<>>,
                               [to |-> "http", status |-> 200, body |-> "OK"],
                               op(TRUE))
              ELSE ResolverEnd(i, r, <<updatedJob>>, NoAnswer, op(TRUE))

\* ------------------------------------------------------------------ cleanup
\* The hourly interval of startCleanupInterval fires, or manualCleanup runs.
Cleanup ==
    LET r == cleanupOldJobs(jobs, now)
    IN  /\ jobs' = r.jobs
        /\ emitted' = r.ev
        /\ ioSent' = Forward(r.ev)
        /\ calls' = <<>>
        /\ qev' = <<>>
        /\ res' = NoAnswer
        /\ lastOp' = [op |-> "cleanup"]
        /\ UNCHANGED <<nextId, now, queue, pending, tasks, resolvers>>

\* ---------------------------------------------------------------- the rest
\* A subscriber connects: it is sent the jobs of the registry.
Connect ==
    /\ emitted' = <<>>
    /\ ioSent' = <<[kind |-> "jobs", jobs |-> getJobs(jobs), to |-> "socket"]>>
    /\ calls' = <<>>
    /\ qev' = <<>>
    /\ res' = NoAnswer
    /\ lastOp' = [op |-> "connect"]
    /\ UNCHANGED <<jobs, nextId, now, queue, pending, tasks, resolvers>>

\* Time passes, a retention period at a time.
Tick ==
        /\ now + Retention <= MaxTime
        /\ now' = now + Retention
        /\ emitted' = <<>>
        /\ ioSent' = <<>>
        /\ calls' = <<>>
        /\ qev' = <<>>
        /\ res' = NoAnswer
        /\ lastOp' = [op |-> "tick"]
        /\ UNCHANGED <<jobs, nextId, queue, pending, tasks, resolvers>>

JobIds == 1..MaxJobs

Next ==
    \/ \E body \in Bodies : Webhook(body, MaxJobs)
    \/ \E j \in JobIds : TaskCategories(j)
    \/ \E j \in JobIds : TaskClassified(j)
    \/ \E j \in JobIds : TaskAssigned(j)
    \/ \E j \in JobIds : TaskTimeout(j)
    \/ \E via \in Vias, j \in JobIds : SetCategoryCall(via, j, MaxResolvers)
    \/ \E i \in 1..MaxResolvers : ResolverCategories(i)
    \/ \E i \in 1..MaxResolvers : ResolverAssigned(i)
    \/ Cleanup
    \/ Connect
    \/ Tick

Spec == Init /\ [][Next]_vars

\* The queue on its own, with room for two tasks to wait behind a third.
QueueJobIds == 1..MaxQueueJobs

NextQueue ==
    \/ \E body \in ValidBodies : Webhook(body, MaxQueueJobs)
    \/ \E j \in QueueJobIds : TaskCategories(j)
    \/ \E j \in QueueJobIds : TaskClassified(j)
    \/ \E j \in QueueJobIds : TaskAssigned(j)
    \/ \E j \in QueueJobIds : TaskTimeout(j)

SpecQueue == Init /\ [][NextQueue]_vars

\* The queue when every collaborator call is answered in the end, with a
\* result or an error, before or after the timeout of its task: a task that
\* waits for an answer does take its next step.
LiveJobIds == 1..MaxLiveJobs

NextLive ==
    \/ \E body \in ValidBodies : Webhook(body, MaxLiveJobs)
    \/ \E j \in LiveJobIds : TaskCategories(j)
    \/ \E j \in LiveJobIds : TaskClassified(j)
    \/ \E j \in LiveJobIds : TaskAssigned(j)
    \/ \E j \in LiveJobIds : TaskTimeout(j)

CallsReturn ==
    \A j \in LiveJobIds :
        /\ WF_vars(TaskCategories(j))
        /\ WF_vars(TaskClassified(j))
        /\ WF_vars(TaskAssigned(j))

SpecLive == Init /\ [][NextLive]_vars /\ CallsReturn

\* The queue and the retention sweep: jobs age while their tasks run.
SweepJobIds == 1..MaxSweepJobs

NextSweep ==
    \/ \E body \in ValidBodies : Webhook(body, MaxSweepJobs)
    \/ \E j \in SweepJobIds : TaskCategories(j)
    \/ \E j \in SweepJobIds : TaskClassified(j)
    \/ \E j \in SweepJobIds : TaskAssigned(j)
    \/ \E j \in SweepJobIds : TaskTimeout(j)
    \/ Cleanup
    \/ Tick

SpecSweep == Init /\ [][NextSweep]_vars

\* The queue, the sweep and the subscribers that connect meanwhile.
NextSubscribers ==
    \/ NextSweep
    \/ Connect

SpecSubscribers == Init /\ [][NextSubscribers]_vars

\* Resolutions of one job that overlap, beside the sweep.
NextRace ==
    \/ \E body \in ValidBodies : Webhook(body, MaxJobs)
    \/ \E j \in JobIds : TaskCategories(j)
    \/ \E j \in JobIds : TaskClassified(j)
    \/ \E j \in JobIds : TaskAssigned(j)
    \/ \E via \in Vias, j \in JobIds :
            SetCategoryCall(via, j, MaxRacingResolvers)
    \/ \E i \in 1..MaxRacingResolvers : ResolverCategories(i)
    \/ \E i \in 1..MaxRacingResolvers : ResolverAssigned(i)
    \/ Cleanup
    \/ Tick

SpecRace == Init /\ [][NextRace]_vars

\* The ledger delivers the notification of one transaction again and again.
\* The payload shows the transaction as the ledger has it: with a category
\* once an assign-category call for it has succeeded, without one before.
Categorised(js, transactionId) ==
    \E i \in 1..Len(js) :
        /\ js[i].status = "finished"
        /\ js[i].data.transactionId = transactionId

Notification(transactionId, categoryId) ==
    Body("UPDATE_TRANSACTION", "TRANSACTIONS", transactionId, TRUE,
         <<Tx("withdrawal", categoryId, <<"COFFEE SHOP">>, <<"Coffee Shop">>)>>)

Redelivery ==
    Webhook(Notification(1, IF Categorised(jobs, 1) THEN "7" ELSE "null"),
            MaxDeliveries)

DeliveryJobIds == 1..MaxDeliveries

NextRedelivery ==
    \/ Redelivery
    \/ \E j \in DeliveryJobIds : TaskCategories(j)
    \/ \E j \in DeliveryJobIds : TaskClassified(j)
    \/ \E j \in DeliveryJobIds : TaskAssigned(j)
    \/ \E j \in DeliveryJobIds : TaskTimeout(j)

SpecRedelivery == Init /\ [][NextRedelivery]_vars

\* The JobList called directly: createJob and updateJobData with every data
\* bag over two keys, for the ids of the registry and one unknown id.
DataKeys == {"category", "prompt"}
DataValues == {<<"Food">>, <<"Pizza">>}
DataBags == UNION { [keys -> DataValues] : keys \in SUBSET DataKeys }

StoreCreate(data) ==
    LET id == uuid(nextId)
        r == createJob(jobs, id, now, data)
    IN  /\ nextId <= MaxStoreJobs
        /\ jobs' = r.jobs
        /\ nextId' = nextId + 1
        /\ emitted' = r.ev
        /\ ioSent' = Forward(r.ev)
        /\ calls' = <<>>
        /\ qev' = <<>>
        /\ res' = NoAnswer
        /\ lastOp' = [op |-> "createJob", job |-> id]
        /\ UNCHANGED <<now, queue, pending, tasks, resolvers>>

StoreUpdate(id, data) ==
    LET r == updateJobData(jobs, id, data)
    IN  /\ jobs' = r.jobs
        /\ emitted' = r.ev
        /\ ioSent' = Forward(r.ev)
        /\ calls' = <<>>
        /\ qev' = <<>>
        /\ res' = NoAnswer
        /\ lastOp' = [op |-> "updateJobData", job |-> id, data |-> data]
        /\ UNCHANGED <<nextId, now, queue, pending, tasks, resolvers>>

StoreJobIds == 1..(MaxStoreJobs + 1)

NextStore ==
    \/ \E data \in DataBags : StoreCreate(data)
    \/ \E id \in StoreJobIds, data \in DataBags : StoreUpdate(id, data)

SpecStore == Init /\ [][NextStore]_vars

\* Notifications whose descriptions exercise the rules of removeSubstrings:
\* a marker once, twice, in either case, a marker that takes the rest of the
\* line, blanks at the ends, and no marker at all.
Descriptions ==
    { <<"COFFEE SHOP">>,
      <<SP, "COFFEE SHOP", SP>>,
      <<"PAGAMENTO POS", SP, "COFFEE SHOP">>,
      <<"CRV*", SP, "CRV*", SP, "COFFEE SHOP">>,
      <<"paypal*", "COFFEE SHOP", SP, "PAYPAL*">>,
      <<"COFFEE SHOP", SP, "OPERAZIONE", SP, "CRV*">>,
      <<"VILNIUS IRL", SP, "COFFEE SHOP">>,
      <<"COFFEE SHOP", SP, "DUBLIN IRL">>,
      <<"COFFEE SHOP", SP, "AMSTERDAM IRL", SP, "COFFEE SHOP">>,
      <<"crv*", "COFFEE SHOP">>,
      <<"pagamento pos", SP, "CRV*", SP, "COFFEE SHOP">>,
      <<"PAGAMENTO POS", SP, "PAGAMENTO POS", SP, "COFFEE SHOP">> }

Described(description) ==
    Body("UPDATE_TRANSACTION", "TRANSACTIONS", 1, TRUE,
         <<Tx("withdrawal", "null", description, <<"Coffee Shop">>)>>)

NextNormalizer ==
    \/ \E d \in Descriptions : Webhook(Described(d), MaxWebhookJobs)
    \/ \E j \in 1..MaxWebhookJobs : TaskCategories(j)
    \/ \E j \in 1..MaxWebhookJobs : TaskClassified(j)
    \/ \E j \in 1..MaxWebhookJobs : TaskAssigned(j)

SpecNormalizer == Init /\ [][NextNormalizer]_vars

\* The webhook endpoint under every kind of payload, beside the queued tasks.
WebhookJobIds == 1..MaxWebhookJobs

NextWebhook ==
    \/ \E body \in WebhookBodies : Webhook(body, MaxWebhookJobs)
    \/ \E j \in WebhookJobIds : TaskCategories(j)
    \/ \E j \in WebhookJobIds : TaskClassified(j)
    \/ \E j \in WebhookJobIds : TaskAssigned(j)

SpecWebhook == Init /\ [][NextWebhook]_vars

\* ================================================================== claims
Ids(js) == { js[i].id : i \in 1..Len(js) }

StatusOf(js, id) == getJob(js, id).status

InProgress == { id \in Ids(jobs) : StatusOf(jobs, id) = "in_progress" }

\* The jobs whose task is still in flight after its timeout has fired.
TimedOut == { t.job : t \in tasks } \ pending

\* C1: in every reachable state at most one job has status in_progress.
C1_AtMostOneInProgress == Cardinality(InProgress) <= 1

\* C2: a job whose task has timed out is failed, never left in_progress.
C2_TimedOutJobIsFailed ==
    \A j \in TimedOut : HasJob(jobs, j) => StatusOf(jobs, j) = "failed"

\* The step in which classify answers null to the task of job j.
NullClassification(j) ==
    /\ lastOp'.op = "task"
    /\ lastOp'.job = j
    /\ lastOp'.step = "classify"
    /\ lastOp'.result = "null"

\* C3: when classify answers null (no match) inside a job's task, the job
\* moves from in_progress to human_input, and a human_input job stays
\* human_input until a resolver call.
C3_NullGoesToHumanInput ==
    [][ /\ \A j \in Ids(jobs) :
              NullClassification(j) =>
                  /\ StatusOf(jobs, j) = "in_progress"
                  /\ StatusOf(jobs', j) = "human_input"
        /\ \A j \in Ids(jobs) :
              (StatusOf(jobs, j) = "human_input" /\ lastOp'.op # "setCategory") =>
                  (HasJob(jobs', j) /\ StatusOf(jobs', j) = "human_input")
      ]_vars

\* The step in which an await of the task of job j throws.
TaskCallFails(j) ==
    /\ lastOp'.op = "task"
    /\ lastOp'.job = j
    /\ ~lastOp'.ok

ErrorOf(step) == IF step = "classify" THEN OpenAiError ELSE FireflyError

\* C4: when a collaborator call of a task fails, the job ends failed with
\* the error's message, the queue dispatches no 'error', and the task
\* waiting at the head of the queue is started if the failed task held the
\* queue's slot; no waiting task is dropped.
C4_FailureIsContained ==
    [][ /\ \A i \in 1..Len(qev') : qev'[i].kind # "error"
        /\ \A j \in Ids(jobs) :
              TaskCallFails(j) =>
                  /\ StatusOf(jobs', j) = "failed"
                  /\ getJob(jobs', j).errorMessage = Some(ErrorOf(lastOp'.step))
                  /\ IF j \in pending /\ queue # <<>>
                     THEN /\ queue' = Tail(queue)
                          /\ Head(queue) \in pending'
                          /\ StatusOf(jobs', Head(queue)) = "in_progress"
                          /\ \E t \in tasks' : t.job = Head(queue)
                     ELSE queue' = queue
      ]_vars

C4_Witness ==
    /\ lastOp.op = "task"
    /\ ~lastOp.ok
    /\ StatusOf(jobs, lastOp.job) = "failed"
    /\ \E i \in 1..Len(qev) : qev[i].kind = "start"

Transitions ==
    { <<"queued", "in_progress">>, <<"in_progress", "finished">>,
      <<"in_progress", "human_input">>, <<"in_progress", "failed">>,
      <<"human_input", "finished">> }

Started(js, j) == HasJob(js, j) /\ StatusOf(js, j) # "queued"

IsPrefix(a, b) == Len(a) <= Len(b) /\ \A i \in 1..Len(a) : a[i] = b[i]

\* C6: tasks start in submission order (ids are handed out in the order of
\* acceptance): a job is started only when every job accepted before it has
\* been, and a waiting task leaves the queue only from its head, by starting.
C6_FifoStart ==
    [][ /\ \A j \in Ids(jobs'), k \in Ids(jobs') :
              (k < j /\ Started(jobs', j)) => Started(jobs', k)
        /\ \/ IsPrefix(queue, queue')
           \/ /\ queue # <<>>
              /\ IsPrefix(Tail(queue), queue')
              /\ StatusOf(jobs, Head(queue)) = "queued"
              /\ StatusOf(jobs', Head(queue)) = "in_progress"
      ]_vars

C6_Witness ==
    /\ Len(jobs) = 3
    /\ StatusOf(jobs, 1) = "finished"
    /\ StatusOf(jobs, 2) = "in_progress"
    /\ StatusOf(jobs, 3) = "queued"
    /\ queue = <<3>>
    /\ lastOp.op = "task"

\* C7: a sweep deletes exactly the jobs that are finished or failed and
\* older than the retention threshold, and leaves the others as they are;
\* nothing but a sweep deletes a job.
C7_CleanupDeletesExactly ==
    [][ /\ lastOp'.op = "cleanup" =>
              /\ \A i \in 1..Len(jobs) :
                    HasJob(jobs', jobs[i].id) <=>
                        ~(/\ jobs[i].status \in {"finished", "failed"}
                          /\ now - jobs[i].created > Retention)
              /\ \A j \in Ids(jobs') :
                    HasJob(jobs, j) /\ getJob(jobs', j) = getJob(jobs, j)
        /\ lastOp'.op # "cleanup" => Ids(jobs) \subseteq Ids(jobs')
      ]_vars

C7_Witness ==
    /\ lastOp.op = "cleanup"
    /\ \E i \in 1..Len(emitted) : emitted[i].kind = "job deleted"
    /\ \E i \in 1..Len(jobs) :
          /\ jobs[i].status \in {"queued", "in_progress", "human_input"}
          /\ now - jobs[i].created > Retention

\* C8: a job carries an errorMessage if and only if its status is failed.
C8_ErrorMessageIffFailed ==
    \A i \in 1..Len(jobs) :
        (jobs[i].errorMessage # None) <=> (jobs[i].status = "failed")

C8_Witness ==
    /\ lastOp.op = "task"
    /\ ~lastOp.ok
    /\ \E i \in 1..Len(jobs) :
          /\ jobs[i].id = lastOp.job
          /\ jobs[i].status = "failed"
          /\ jobs[i].errorMessage = Some(ErrorOf(lastOp.step))

\* The step in which the task of job j calls setJobFailed.
SetFailedRuns(j) ==
    /\ lastOp'.op = "task"
    /\ lastOp'.job = j
    /\ \/ ~lastOp'.ok
       \/ lastOp'.step = "classify" /\ lastOp'.result = "null"

\* C9: every setJobFailed on an existing job leaves the job with a
\* non-empty errorMessage, and a 'job updated' event showing the failed job
\* is sent to the subscribers.
C9_SetFailedIsVisible ==
    [][ \A j \in Ids(jobs) :
            SetFailedRuns(j) =>
                \E m \in getJob(jobs', j).errorMessage :
                    /\ m # ""
                    /\ \E i \in 1..Len(ioSent') :
                          /\ ioSent'[i].kind = "job updated"
                          /\ ioSent'[i].job.id = j
                          /\ ioSent'[i].job.status = "failed"
                          /\ ioSent'[i].job.errorMessage = {m}
      ]_vars

C9_Witness ==
    /\ lastOp.op = "task"
    /\ lastOp.step = "setCategory"
    /\ ~lastOp.ok
    /\ \E i \in 1..Len(ioSent) :
          /\ ioSent[i].kind = "job updated"
          /\ ioSent[i].job.id = lastOp.job
          /\ ioSent[i].job.errorMessage = {FireflyError}

\* C10: a resolution for an unknown job id, or for a job that is not in
\* human_input, is answered with an error, issues no collaborator call and
\* changes no job.
C10_ResolutionRejected ==
    [][ \A j \in JobIds :
            ( /\ lastOp'.op = "setCategory"
              /\ lastOp'.step = "entry"
              /\ lastOp'.job = j
              /\ ~(HasJob(jobs, j) /\ StatusOf(jobs, j) = "human_input") ) =>
                /\ \/ res'.to = "http" /\ res'.status = 400
                   \/ res'.to = "socket" /\ res'.kind = "error"
                /\ calls' = <<>>
                /\ emitted' = <<>>
                /\ jobs' = jobs
                /\ resolvers' = resolvers
      ]_vars

C10_Witness ==
    /\ lastOp.op = "setCategory"
    /\ lastOp.step = "entry"
    /\ ~lastOp.ok
    /\ HasJob(jobs, lastOp.job)
    /\ StatusOf(jobs, lastOp.job) = "finished"
    /\ res.to = "http"
    /\ res.status = 400

\* The ids of the categories of a catalog.
IdsOf(categories) == { categories[n] : n \in DOMAIN categories }

\* The step in which a resolution learns that its category is not in the
\* catalog it fetched.
NotInCatalog ==
    /\ lastOp'.op = "setCategory"
    /\ lastOp'.step = "getCategories"
    /\ "catalog" \in DOMAIN lastOp'
    /\ lastOp'.categoryId \notin IdsOf(lastOp'.catalog)

\* C11: a resolution of a human_input job whose category is not in the
\* fetched catalog is answered with an error, issues no assign-category call
\* and changes no job (the job keeps the status and the data it had), and
\* the resolution is over.
C11_UnknownCategoryRejected ==
    [][ NotInCatalog =>
            /\ ~lastOp'.ok
            /\ \/ res'.to = "http" /\ res'.status = 400
               \/ res'.to = "socket" /\ res'.kind = "error"
            /\ calls' = <<>>
            /\ emitted' = <<>>
            /\ jobs' = jobs
            /\ Len(resolvers') = Len(resolvers) - 1
      ]_vars

C11_Witness ==
    /\ lastOp.op = "setCategory"
    /\ lastOp.step = "getCategories"
    /\ "catalog" \in DOMAIN lastOp
    /\ lastOp.catalog = FoodAndUnnamed
    /\ lastOp.categoryId = 3
    /\ StatusOf(jobs, lastOp.job) = "human_input"
    /\ res.to = "http"
    /\ res.status = 400
    /\ res.body = "Category ID not found"
    /\ calls = <<>>

\* The step in which classify answers the task of job j with a category name.
Classified(j) ==
    /\ lastOp'.op = "task"
    /\ lastOp'.job = j
    /\ lastOp'.step = "classify"
    /\ lastOp'.result = "category"

\* The step in which the assign-category call of the task of job j succeeds.
Assigned(j) ==
    /\ lastOp'.op = "task"
    /\ lastOp'.job = j
    /\ lastOp'.step = "setCategory"
    /\ lastOp'.ok

\* C12: when classify answers a name of the fetched catalog, the task merges
\* category, prompt and response into the job's data (keeping what was
\* there) and calls assign-category with the catalog id of that name while
\* the job is still in_progress; when that call succeeds the job becomes
\* finished, its data.category being the name classify answered.
C12_SuccessPath ==
    [][ \A j \in Ids(jobs) :
          /\ Classified(j) =>
                LET t == TaskOf(j)
                    old == getJob(jobs, j).data
                    d == getJob(jobs', j).data
                IN  /\ {"category", "prompt", "response"} \subseteq DOMAIN d
                    /\ d.category \in DOMAIN t.categories
                    /\ d.category # <<>>
                    /\ d.response = d.category
                    /\ d.prompt = generatePrompt(DOMAIN t.categories,
                                                 old.destinationName,
                                                 old.description)
                    /\ \A k \in DOMAIN old \ {"category", "prompt", "response",
                                                "categories"} : d[k] = old[k]
                    /\ calls' = <<[fn |-> "setCategory", by |-> "task", job |-> j,
                                   transactionId |-> old.transactionId,
                                   categoryId |-> t.categories[d.category]]>>
                    /\ StatusOf(jobs, j) = "in_progress"
                    /\ StatusOf(jobs', j) = "in_progress"
          /\ Assigned(j) =>
                /\ StatusOf(jobs', j) = "finished"
                /\ getJob(jobs', j).data = getJob(jobs, j).data
                /\ getJob(jobs', j).data.category = TaskOf(j).category
                /\ calls' = <<>> \/ \A i \in 1..Len(calls') : calls'[i].job # j
      ]_vars

C12_Witness ==
    /\ lastOp.op = "task"
    /\ lastOp.step = "setCategory"
    /\ lastOp.ok
    /\ StatusOf(jobs, lastOp.job) = "finished"
    /\ getJob(jobs, lastOp.job).data.category = <<"Food">>
    /\ getJob(jobs, lastOp.job).data.response = <<"Food">>

\* The first rule of the validator a payload violates, in the order of the
\* rules; "none" for a payload that violates no rule.
RuleViolated(body) ==
    LET c == body.content
        t == c.transactions[1]
    IN  IF body.trigger # "UPDATE_TRANSACTION" THEN "trigger"
        ELSE IF body.response # "TRANSACTIONS" THEN "response"
        ELSE IF c.id = 0 THEN "id"
        ELSE IF ~c.hasTx \/ c.transactions = <<>> THEN "transactions"
        ELSE IF t.type \notin {"withdrawal", "deposit"} THEN "type"
        ELSE IF t.category_id # "null" THEN "category"
        ELSE IF t.description = <<>> THEN "description"
        ELSE IF t.destination_name = <<>> THEN "destination_name"
        ELSE "none"

\* C13: a webhook whose payload violates a validation rule is answered 400
\* and changes nothing: no job, no task, no event, no collaborator call.
C13_InvalidWebhookChangesNothing ==
    [][ (lastOp'.op = "webhook" /\ RuleViolated(lastOp'.body) # "none") =>
            /\ ~lastOp'.accepted
            /\ res'.to = "http"
            /\ res'.status = 400
            /\ jobs' = jobs
            /\ nextId' = nextId
            /\ queue' = queue
            /\ pending' = pending
            /\ tasks' = tasks
            /\ emitted' = <<>>
            /\ ioSent' = <<>>
            /\ calls' = <<>>
            /\ qev' = <<>>
      ]_vars

C13_Witness ==
    /\ lastOp.op = "webhook"
    /\ ~lastOp.accepted
    /\ RuleViolated(lastOp.body) = "category"
    /\ res.status = 400
    /\ jobs # <<>>
    /\ tasks # {}

\* The reason the validator gives for each of its rules.
ReasonOf(rule) ==
    CASE rule = "trigger" ->
           "Trigger is not UPDATE_TRANSACTION. Request will not be processed"
      [] rule = "response" ->
           "Response is not TRANSACTIONS. Request will not be processed"
      [] rule = "id" -> "Missing content.id"
      [] rule = "transactions" ->
           "No transactions are available in content.transactions"
      [] rule = "type" ->
           "content.transactions[0].type must be withdrawal or deposit. Transaction will be ignored."
      [] rule = "category" ->
           "content.transactions[0].category_id is already set. Transaction will be ignored."
      [] rule = "description" -> "Missing content.transactions[0].description"
      [] rule = "destination_name" ->
           "Missing content.transactions[0].destination_name"

\* C14: the rules are checked in their order, and a payload that violates
\* several rules, or that has no transaction list at all, is rejected with
\* the reason of the first rule it violates.
C14_FirstViolationReason ==
    [][ (lastOp'.op = "webhook" /\ RuleViolated(lastOp'.body) # "none") =>
            res'.body = ReasonOf(RuleViolated(lastOp'.body))
      ]_vars

\* C15: every event the JobList emits, 'job created', 'job updated' or
\* 'job deleted', is sent to the subscribers as it was emitted.
C15_EveryEventRepublished ==
    \A i \in 1..Len(emitted) :
        \E k \in 1..Len(ioSent) : ioSent[k] = emitted[i]

LifecycleKinds == {"job created", "job updated", "job deleted"}

\* C16: every lifecycle message sent to the subscribers carries the job it
\* is about (its id for a deletion) and a snapshot of all the jobs.
C16_EventsCarrySnapshot ==
    \A k \in 1..Len(ioSent) :
        ioSent[k].kind \in LifecycleKinds =>
            /\ "jobs" \in DOMAIN ioSent[k]
            /\ IF ioSent[k].kind = "job deleted"
               THEN "id" \in DOMAIN ioSent[k]
               ELSE "job" \in DOMAIN ioSent[k]

\* C17: the subscriber that connects is sent one 'jobs' message holding
\* exactly the jobs the registry has at that moment.
C17_ConnectSendsSnapshot ==
    lastOp.op = "connect" =>
        /\ Len(ioSent) = 1
        /\ ioSent[1].kind = "jobs"
        /\ ioSent[1].to = "socket"
        /\ ioSent[1].jobs = jobs

C17_Witness ==
    /\ lastOp.op = "connect"
    /\ nextId = 3
    /\ Len(jobs) = 1
    /\ jobs[1].id = 2
    /\ jobs[1].status = "finished"
    /\ ioSent[1].jobs = jobs

\* The jobs that have a resolution in flight.
BeingResolved == { resolvers[i].jobId : i \in 1..Len(resolvers) }

\* C18: a sweep and a resolution of the same job exclude each other: no job
\* is deleted while a resolution of it is in flight, and no resolution
\* issues the assign-category call for a job that has been deleted.
C18_SweepExcludesResolution ==
    [][ /\ \A j \in BeingResolved : HasJob(jobs, j) => HasJob(jobs', j)
        /\ \A k \in 1..Len(calls') :
              (calls'[k].fn = "setCategory" /\ calls'[k].by = "resolver") =>
                  HasJob(jobs, calls'[k].job)
      ]_vars

\* The resolutions that have found their category in the catalog and wait
\* for the assign-category call, for job j.
ValidResolutions(j) ==
    { i \in 1..Len(resolvers) :
        /\ resolvers[i].jobId = j
        /\ resolvers[i].pc = "setCategory"
        /\ resolvers[i].name # <<>> }

\* C19: a job in human_input is changed only by the end of a resolution
\* that found its category in the catalog, and then becomes finished; no
\* task step, timeout or sweep changes or deletes it.
C19_OnlyResolverLeavesHumanInput ==
    [][ \A j \in Ids(jobs) :
            ( /\ StatusOf(jobs, j) = "human_input"
              /\ \/ ~HasJob(jobs', j)
                 \/ getJob(jobs', j) # getJob(jobs, j) ) =>
                /\ lastOp'.op = "setCategory"
                /\ lastOp'.step = "setCategory"
                /\ lastOp'.ok
                /\ lastOp'.job = j
                /\ ValidResolutions(j) # {}
                /\ HasJob(jobs', j)
                /\ StatusOf(jobs', j) = "finished"
      ]_vars

C19_Witness ==
    /\ lastOp.op = "cleanup"
    /\ \E i \in 1..Len(jobs) :
          /\ jobs[i].status = "human_input"
          /\ now - jobs[i].created > Retention
    /\ tasks = {}

\* C20: for one ledger transaction the assign-category call succeeds at most
\* once over all the jobs made from its notifications: when the call of a
\* job succeeds, no other job of that transaction has been finished by one.
C20_AssignedAtMostOnce ==
    [][ \A j \in Ids(jobs) :
            Assigned(j) =>
                \A k \in Ids(jobs) \ {j} :
                    ~(/\ StatusOf(jobs, k) = "finished"
                      /\ getJob(jobs, k).data.transactionId =
                            getJob(jobs, j).data.transactionId)
      ]_vars

\* C21: no id is handed out twice: the id of a new job is the id of no job
\* of the registry and of no job created earlier (those ids are below
\* nextId), deleted or not, and the jobs of the registry have distinct ids.
C21_IdsAreUnique ==
    [][ /\ (lastOp'.op = "webhook" /\ lastOp'.accepted) =>
              /\ lastOp'.job \notin Ids(jobs)
              /\ lastOp'.job >= nextId
              /\ lastOp'.job < nextId'
              /\ HasJob(jobs', lastOp'.job)
        /\ \A i \in 1..Len(jobs'), k \in 1..Len(jobs') :
              i # k => jobs'[i].id # jobs'[k].id
        /\ \A j \in Ids(jobs') : j < nextId'
      ]_vars

C21_Witness ==
    /\ lastOp.op = "webhook"
    /\ lastOp.accepted
    /\ lastOp.job = 2
    /\ ~HasJob(jobs, 1)
    /\ HasJob(jobs, 2)

\* The step in which a resolution of job j has its category and issues the
\* assign-category call.
ResolutionCalls(j) ==
    /\ lastOp'.op = "setCategory"
    /\ lastOp'.job = j
    /\ lastOp'.step = "getCategories"
    /\ lastOp'.ok

\* The step in which the assign-category call of a resolution of job j
\* settles.
ResolutionSettles(j) ==
    /\ lastOp'.op = "setCategory"
    /\ lastOp'.job = j
    /\ lastOp'.step = "setCategory"

\* C22: a resolution of a human_input job first issues the assign-category
\* call for the job's transaction with the category id it was given, the
\* job unchanged; when the call succeeds the name of the category is
\* written into the job's data and the job is set finished, the rest of
\* its data kept; when the call fails no job changes.
C22_ResolutionOrder ==
    [][ \A j \in Ids(jobs) :
          StatusOf(jobs, j) = "human_input" =>
            /\ ResolutionCalls(j) =>
                  /\ jobs' = jobs
                  /\ emitted' = <<>>
                  /\ calls' = <<[fn |-> "setCategory", by |-> "resolver",
                                 job |-> j,
                                 transactionId |->
                                     getJob(jobs, j).data.transactionId,
                                 categoryId |-> lastOp'.categoryId]>>
                  /\ lastOp'.categoryId \in IdsOf(lastOp'.catalog)
            /\ (ResolutionSettles(j) /\ lastOp'.ok) =>
                  LET old == getJob(jobs, j)
                      new == getJob(jobs', j)
                  IN  /\ ValidResolutions(j) # {}
                      /\ new.status = "finished"
                      /\ "category" \in DOMAIN new.data
                      /\ \E i \in ValidResolutions(j) :
                            new.data.category = resolvers[i].name
                      /\ \A k \in DOMAIN old.data \ {"category"} :
                            new.data[k] = old.data[k]
                      /\ calls' = <<>>
                      /\ \E e \in 1..Len(ioSent') :
                            /\ ioSent'[e].kind = "job updated"
                            /\ ioSent'[e].job = new
            /\ (ResolutionSettles(j) /\ ~lastOp'.ok) =>
                  /\ jobs' = jobs
                  /\ emitted' = <<>>
                  /\ calls' = <<>>
                  /\ \/ res'.to = "http" /\ res'.status = 400
                     \/ res'.to = "socket" /\ res'.kind = "error"
      ]_vars

C22_Witness ==
    /\ lastOp.op = "setCategory"
    /\ lastOp.step = "setCategory"
    /\ lastOp.ok
    /\ lastOp.via = "http"
    /\ res.to = "http"
    /\ res.status = 200
    /\ StatusOf(jobs, lastOp.job) = "finished"
    /\ getJob(jobs, lastOp.job).data.category = <<"Food">>

\* C23: a task whose timeout has fired does nothing more: it issues no
\* collaborator call and changes neither the data nor the status of its job.
C23_TimedOutTaskIsAborted ==
    [][ \A j \in TimedOut :
            /\ HasJob(jobs, j) =>
                  HasJob(jobs', j) /\ getJob(jobs', j) = getJob(jobs, j)
            /\ \A k \in 1..Len(calls') :
                  ~(calls'[k].by = "task" /\ calls'[k].job = j)
      ]_vars

\* C24: updateJobData on a job of the registry merges: every key of the
\* data given has the value given, every other key of the job's data keeps
\* its value, no key appears from elsewhere, and 'job updated' is emitted;
\* for an unknown id no job changes and no event is emitted.
C24_UpdateMerges ==
    [][ lastOp'.op = "updateJobData" =>
            LET id == lastOp'.job
                partial == lastOp'.data
            IN  IF HasJob(jobs, id)
                THEN LET old == getJob(jobs, id)
                         new == getJob(jobs', id)
                     IN  /\ DOMAIN new.data = DOMAIN old.data \cup DOMAIN partial
                         /\ \A k \in DOMAIN partial : new.data[k] = partial[k]
                         /\ \A k \in DOMAIN old.data \ DOMAIN partial :
                               new.data[k] = old.data[k]
                         /\ new.status = old.status
                         /\ \A j \in Ids(jobs) \ {id} :
                               getJob(jobs', j) = getJob(jobs, j)
                         /\ Len(emitted') = 1
                         /\ emitted'[1].kind = "job updated"
                         /\ emitted'[1].job = new
                ELSE /\ jobs' = jobs
                     /\ emitted' = <<>>
      ]_vars

C24_Witness ==
    /\ lastOp.op = "updateJobData"
    /\ HasJob(jobs, lastOp.job)
    /\ lastOp.data = [category |-> <<"Pizza">>]
    /\ getJob(jobs, lastOp.job).data =
          [category |-> <<"Pizza">>, prompt |-> <<"Food">>]

\* The marker tokens of the rules.
Markers ==
    UNION { exactSubstringsToRemove[i].match :
                i \in 1..Len(exactSubstringsToRemove) }

\* C25: the normalizer removes every occurrence of every rule's pattern and
\* trims: the description stored in the job of an accepted webhook holds no
\* marker token and neither starts nor ends with a blank.
C25_EveryOccurrenceRemoved ==
    [][ (lastOp'.op = "webhook" /\ lastOp'.accepted) =>
            LET d == getJob(jobs', lastOp'.job).data.description
            IN  /\ \A i \in 1..Len(d) : d[i] \notin Markers
                /\ d = trim(d)
      ]_vars

\* The positions of the queue at which the task of job j waits.
Waiting(j) == { i \in 1..Len(queue) : queue[i] = j }

\* C26: every job in status queued has exactly one task waiting in the
\* queue, and every waiting task is the task of a job of the registry in
\* status queued.
C26_QueuedIffWaiting ==
    /\ \A j \in Ids(jobs) :
          StatusOf(jobs, j) = "queued" => Cardinality(Waiting(j)) = 1
    /\ \A i \in 1..Len(queue) :
          /\ HasJob(jobs, queue[i])
          /\ StatusOf(jobs, queue[i]) = "queued"

C26_Witness ==
    /\ lastOp.op = "cleanup"
    /\ queue # <<>>
    /\ \A i \in 1..Len(queue) :
          /\ StatusOf(jobs, queue[i]) = "queued"
          /\ now - getJob(jobs, queue[i]).created > Retention

Settled == {"finished", "failed", "human_input"}

\* C27: when every collaborator call is answered in the end, every job
\* created by an accepted webhook reaches finished, failed or human_input:
\* none stays queued or in_progress for ever.
C27_EveryJobSettles ==
    \A j \in LiveJobIds :
        HasJob(jobs, j) ~> (HasJob(jobs, j) /\ StatusOf(jobs, j) \in Settled)

C27_Witness ==
    /\ Len(jobs) = 2
    /\ jobs[1].status = "failed"
    /\ jobs[2].status = "finished"
    /\ tasks = {}
    /\ queue = <<>>

\* The step in which an assign-category call made for job j, by its task or
\* by a resolution, succeeds.
AssignSucceeds(j) ==
    /\ lastOp'.op \in {"task", "setCategory"}
    /\ lastOp'.job = j
    /\ lastOp'.step = "setCategory"
    /\ lastOp'.ok

\* C28: a job becomes finished only in the step in which an assign-category
\* call made for it succeeds: the call of its task, issued for the job's
\* transaction, or the call of a resolution of it.
C28_FinishedOnlyAfterAssign ==
    [][ \A j \in Ids(jobs) \cap Ids(jobs') :
            (StatusOf(jobs, j) # "finished" /\ StatusOf(jobs', j) = "finished") =>
                /\ AssignSucceeds(j)
                /\ IF lastOp'.op = "task"
                   THEN \E t \in tasks : t.job = j /\ t.pc = "setCategory"
                   ELSE \E i \in 1..Len(resolvers) :
                          /\ resolvers[i].jobId = j
                          /\ resolvers[i].pc = "setCategory"
                          /\ resolvers[i].transactionId =
                                getJob(jobs, j).data.transactionId
      ]_vars

C28_Witness ==
    /\ lastOp.op = "setCategory"
    /\ lastOp.step = "setCategory"
    /\ lastOp.ok
    /\ lastOp.via = "socket"
    /\ StatusOf(jobs, lastOp.job) = "finished"
    /\ Len(ioSent) = 2

\* C29: a job for which an assign-category call has succeeded is never
\* failed: it is not failed when the call succeeds, it is finished by the
\* step in which the call succeeds, and a finished job does not become
\* failed.
C29_AssignedNeverFailed ==
    [][ \A j \in Ids(jobs) :
          /\ AssignSucceeds(j) =>
                /\ StatusOf(jobs, j) # "failed"
                /\ HasJob(jobs', j)
                /\ StatusOf(jobs', j) = "finished"
          /\ (StatusOf(jobs, j) = "finished" /\ HasJob(jobs', j)) =>
                StatusOf(jobs', j) # "failed"
      ]_vars

C29_Witness ==
    /\ lastOp.op = "task"
    /\ lastOp.step = "setCategory"
    /\ ~lastOp.ok
    /\ StatusOf(jobs, lastOp.job) = "failed"
    /\ "category" \in DOMAIN getJob(jobs, lastOp.job).data
    /\ getJob(jobs, lastOp.job).errorMessage = Some(FireflyError)
    /\ calls = <<>>

\* C30: of two resolutions issued for the same human_input job only one
\* takes effect: a resolution is accepted only when no other resolution of
\* the job is in flight, so the resolvers issue the assign-category call at
\* most once for the job.
C30_OneResolutionPerJob ==
    \A i \in 1..Len(resolvers), k \in 1..Len(resolvers) :
        i # k => resolvers[i].jobId # resolvers[k].jobId

====
